---- MODULE Spec2Model ----
(***************************************************************************)
(* Invoice totals engine of vos_api_v4: the line-item calculation          *)
(* (InvoiceItem.calculate_amounts), the invoice rollup                     *)
(* (Invoice.update_totals), the CRUD operations create_with_items and      *)
(* update_with_items, and the HTTP handlers that call them, over a         *)
(* PostgreSQL store reached through one SQLAlchemy session per request.    *)
(*                                                                         *)
(* Amounts are Decimal values in the code.  Here every amount is an        *)
(* integer count of 1/Micro of a cent, quantity is a count of tenths of a  *)
(* unit, unit_price a count of cents and the two percentages are whole     *)
(* percents, so that every product the code forms is exact, as it is in    *)
(* Python's Decimal at its default 28 digits.                              *)
(***************************************************************************)
EXTENDS Integers, Sequences, FiniteSets, TLC

\* ------------------------------------------------------------------------
\* Bounds of the model
\* ------------------------------------------------------------------------
MaxReq == 2          \* requests started in one behaviour

\* ------------------------------------------------------------------------
\* Units
\* ------------------------------------------------------------------------
\* One cent, in amount units: tenths of a unit * 1/100 (discount) * 1/100 (VAT).
Micro == 10 * 100 * 100

Abs(x) == IF x < 0 THEN 0 - x ELSE x

\* A value written to a Numeric(precision=10, scale=2) column: PostgreSQL
\* rounds it to two fraction digits, ties away from zero.
Round2(x) == (IF x < 0 THEN -1 ELSE 1) * (((Abs(x) + (Micro \div 2)) \div Micro) * Micro)

\* ------------------------------------------------------------------------
\* InvoiceItem.calculate_amounts
\* ------------------------------------------------------------------------
\* InvoiceItem.subtotal: quantity * unit_price.
ItemSubtotal(it) == it.quantity * it.unit_price * (Micro \div 10)

\* x * (Decimal(pct) / 100); every x here is a multiple of 100 amount units.
PctOf(x, pct) == (x \div 100) * pct

\* calculate_amounts that adds to the gross amount the item holds.
calculate_amounts_accumulating(it) ==
    LET subtotal == ItemSubtotal(it)
        discount == PctOf(subtotal, it.discount_percentage)
        net      == subtotal - discount
        vat      == PctOf(net, it.vat_rate)
    IN  [it EXCEPT !.discount_amount = discount, !.net_amount = net,
                   !.vat_amount = vat, !.gross_amount = @ + net + vat]

\* calculate_amounts with the VAT taken on the subtotal, not on the net.
calculate_amounts_vat_on_subtotal(it) ==
    LET subtotal == ItemSubtotal(it)
        discount == PctOf(subtotal, it.discount_percentage)
        net      == subtotal - discount
        vat      == PctOf(subtotal, it.vat_rate)
    IN  [it EXCEPT !.discount_amount = discount, !.net_amount = net,
                   !.vat_amount = vat, !.gross_amount = net + vat]

\* InvoiceItem.calculate_amounts
calculate_amounts(it) ==
    LET subtotal == ItemSubtotal(it)
        discount == PctOf(subtotal, it.discount_percentage)
        net      == subtotal - discount
        vat      == PctOf(net, it.vat_rate)
    IN  [it EXCEPT !.discount_amount = discount, !.net_amount = net,
                   !.vat_amount = vat, !.gross_amount = net + vat]

\* The row as the columns hold it: the four amount columns are
\* Numeric(10, 2); quantity, unit_price and the percentages are given at
\* their column scale already.
StoredItem(it) ==
    [it EXCEPT !.discount_amount = Round2(it.discount_amount),
               !.net_amount = Round2(it.net_amount),
               !.vat_amount = Round2(it.vat_amount),
               !.gross_amount = Round2(it.gross_amount)]

\* ------------------------------------------------------------------------
\* Reference data and request inputs
\* ------------------------------------------------------------------------
Products == {"p1"}                 \* rows of the product table
\* The columns of a product row the item code reads: Product has a name and
\* no VAT rate.
ProductRow == [p \in Products |-> [name |-> "Water"]]
Units    == {"u1"}                 \* rows of the productunit table
NoProduct == "p9"                  \* a product id that names no row
NoUnit    == "u9"                  \* a unit id that names no row

Numbers    == {"INV-1", "INV-2"}
NoteValues == {"", "note"}

Quantities == {-20, 5, 20}         \* -2.0, 0.5, 2.0
Prices     == {5}                  \* 0.05
Discounts  == {50}
VatRates   == {20}

\* None, where a text is optional.
NoText == "None"

\* InvoiceItemCreate: no field of the schema carries a range constraint.
ItemCreate(p, u, q, up, d, v) ==
    [product_id |-> p, description |-> NoText, unit_id |-> u, quantity |-> q,
     unit_price |-> up, discount_percentage |-> d, vat_rate |-> v]

ItemInputs ==
    {ItemCreate("p1", "u1", q, up, d, v) :
        q \in Quantities, up \in Prices, d \in Discounts, v \in VatRates}
    \cup {ItemCreate(NoProduct, "u1", 20, 5, 50, 20),
          ItemCreate("p1", NoUnit, 20, 5, 50, 20)}

\* InvoiceItemUpdate.dict(exclude_unset=True): the fields the caller set.
ItemUpdates ==
    {("quantity" :> q) : q \in Quantities}
    \cup {("unit_id" :> NoUnit)}

\* Calendar days, None where a date is optional, and date.today().
Dates == {1, 2}
NoDate == 0
Today == 2

\* PaymentStatus
PaymentStatuses == {"pending", "partial", "paid", "overdue", "cancelled"}

\* InvoiceBase.validate_due_date that accepts every due date.
InvoiceBase_validate_due_date_any(values) == TRUE

\* InvoiceBase.validate_due_date: the due date is not before the invoice date.
InvoiceBase_validate_due_date(values) ==
    ~(values.due_date < values.invoice_date)

\* The body of POST /invoices without its items, payment_status defaulted.
InvoiceCreate(number, invoice_date, due_date, status) ==
    [invoice_number |-> number, invoice_date |-> invoice_date,
     due_date |-> due_date, payment_status |-> status]

\* The bodies a client sends, valid or not.
InvoiceBodies ==
    {InvoiceCreate(n, i, d, st) :
        n \in Numbers, i \in Dates, d \in Dates, st \in PaymentStatuses}

\* Bodies with the dates and the status of the schema's example.
PlainBodies == {InvoiceCreate(n, 1, 2, "pending") : n \in Numbers}

\* The empty dict, and the empty table.
Empty == [x \in {} |-> 0]

\* InvoiceUpdate.dict(exclude_unset=True), or the {} the item handlers pass.
HeaderUpdates == {Empty} \cup {("notes" :> n) : n \in NoteValues \ {""}}

\* The lists of at most two elements of S.
UpToTwo(S) == {<< >>} \cup {<<a>> : a \in S} \cup {<<a, b>> : a, b \in S}

Sessions == {1, 2}

\* ------------------------------------------------------------------------
\* State
\* ------------------------------------------------------------------------
VARIABLES
    invoices,   \* committed rows of table invoice: id -> row
    items,      \* committed rows of table invoiceitem: id -> row
    sess,       \* per request session: position, arguments, uncommitted work
    nextId,     \* supply of fresh primary keys
    nreq,       \* requests started so far
    calc,       \* one InvoiceItem object outside any session, and its stage
    auth        \* the user's row, the refresh tokens and the auth requests

vars == <<invoices, items, sess, nextId, nreq, calc, auth>>

Zero5 == [subtotal |-> 0, total_discount |-> 0, total_net |-> 0,
          total_vat |-> 0, total_gross |-> 0]

\* pc: where the handler stands.  op, invoice: the handler and the invoice
\* it works on.  header: the body of a create or of a header update; with
\* the response of mark-paid, the payment_date asked and the status the
\* invoice had.  open: the batch
\* of update_with_items is still being supplied by its caller; otherwise
\* update_items, new_items and delete_item_ids hold what is left of it.
\* nops: item operations of the batch applied so far.  p_inv, p_items,
\* p_del: totals assigned, rows flushed and rows deleted but not committed.
\* loaded: the totals the session's Invoice object was loaded with, Empty
\* while the object is expired.  seen: the invoice.items that update_totals
\* summed for p_inv, kept with the response, as is delete_item_ids; after
\* delete_invoice, the items the invoice had.  In update_invoice loaded is
\* the whole row the Invoice object was loaded with.
\* snap: the committed tables when update_with_items was entered.
\* result, asked, missing: the response of the last request, the number of
\* items it asked to create and whether one of them named no product.
IdleSession ==
    [pc |-> "idle", op |-> "none", invoice |-> 0, header |-> Empty,
     open |-> FALSE, nops |-> 0,
     update_items |-> << >>, new_items |-> << >>, delete_item_ids |-> {},
     p_inv |-> Empty, p_items |-> Empty, p_del |-> {},
     loaded |-> Empty, seen |-> Empty,
     snap |-> Empty, result |-> "none", asked |-> 0, missing |-> FALSE]

\* user.refresh_token of a user that holds none (None), and a presented
\* string that jwt.decode does not accept.
NoToken == 0
NotAJwt == -1

\* Requests to the auth endpoints that are started.
MaxAuthReq == 3

\* An auth request.  token: the refresh token presented; new: the refresh
\* token created; loaded: user.refresh_token as the session loaded it;
\* seen: the logins that had answered when the request began.
IdleAuth ==
    [pc |-> "idle", op |-> "none", token |-> NoToken, new |-> NoToken,
     loaded |-> NoToken, seen |-> 0, result |-> "none"]

\* user: the committed row of the user.  req: the auth requests.  ntok: the
\* refresh tokens created; n: the requests started.  issued: the tokens
\* handed out in a response; last: the one handed out by the latest login
\* or refresh that answered; redeemed: the tokens presented to the
\* refreshes that succeeded, in order; logins: the logins that succeeded;
\* logged_out: a logout has answered and no login has since it began.
NoAuth ==
    [user |-> [refresh_token |-> NoToken, is_active |-> TRUE],
     req |-> [s \in Sessions |-> IdleAuth],
     ntok |-> 0, n |-> 0,
     issued |-> {}, last |-> NoToken, redeemed |-> << >>,
     logins |-> 0, logged_out |-> FALSE]

Init ==
    /\ invoices = Empty
    /\ items = Empty
    /\ sess = [s \in Sessions |-> IdleSession]
    /\ nextId = 1
    /\ nreq = 0
    /\ auth = NoAuth
    /\ calc = [pc |-> "none"]

\* ------------------------------------------------------------------------
\* Tables, sessions, transactions
\* ------------------------------------------------------------------------
\* dict.get(key): the value under key, or None.
DictHas(d, k) == k \in DOMAIN d

\* obj with the fields of the dict upd set on it (setattr per given field).
SetFields(obj, upd) ==
    [f \in DOMAIN obj |-> IF f \in DOMAIN upd THEN upd[f] ELSE obj[f]]

\* What session s reads: committed rows (READ COMMITTED) under its own
\* flushed, uncommitted inserts, updates and deletes.  Rows the session has
\* written carry the values it assigned, not yet rounded by a reload.
TxItems(s) ==
    [id \in (DOMAIN items \ sess[s].p_del) \cup DOMAIN sess[s].p_items |->
        IF id \in DOMAIN sess[s].p_items THEN sess[s].p_items[id] ELSE items[id]]

\* Invoice.items: the rows whose invoice_id is inv, in the view tbl.
ItemsOf(tbl, inv) == {id \in DOMAIN tbl : tbl[id].invoice_id = inv}

\* The five totals of an invoice row.
InvoiceTotals(row) == [f \in DOMAIN Zero5 |-> row[f]]

RECURSIVE SumField(_, _, _)
SumField(tbl, ids, field) ==
    IF ids = {} THEN 0
    ELSE LET id == CHOOSE x \in ids : TRUE
         IN  tbl[id][field] + SumField(tbl, ids \ {id}, field)

RECURSIVE SumSubtotal(_, _)
SumSubtotal(tbl, ids) ==
    IF ids = {} THEN 0
    ELSE LET id == CHOOSE x \in ids : TRUE
         IN  ItemSubtotal(tbl[id]) + SumSubtotal(tbl, ids \ {id})

\* update_totals that leaves the totals of an invoice without items.
update_totals_stale(tbl, ids) == Zero5

\* Invoice.update_totals over the loaded collection self.items.
update_totals(tbl, ids) ==
    [subtotal       |-> SumSubtotal(tbl, ids),
     total_discount |-> SumField(tbl, ids, "discount_amount"),
     total_net      |-> SumField(tbl, ids, "net_amount"),
     total_vat      |-> SumField(tbl, ids, "vat_amount"),
     total_gross    |-> SumField(tbl, ids, "gross_amount")]

\* The five totals as the Numeric(10, 2) columns of invoice hold them.
StoredTotals(t) == [f \in DOMAIN t |-> Round2(t[f])]

\* The foreign keys of invoiceitem that a flush checks.
ForeignKeysHold(row, invs) ==
    /\ row.invoice_id \in invs
    /\ row.product_id \in Products
    /\ row.unit_id \in Units

\* not x, for x a text or None.
Falsy(x) == x = NoText \/ x = ""

\* hasattr(product, name)
HasAttr(product, name) == name \in DOMAIN product

\* create_with_invoice that takes the given description as it is.
create_with_invoice_keeps_description(obj_in, invoice_id, product) ==
    calculate_amounts(
        [invoice_id |-> invoice_id, product_id |-> obj_in.product_id,
         description |-> obj_in.description,
         unit_id |-> obj_in.unit_id, quantity |-> obj_in.quantity,
         unit_price |-> obj_in.unit_price,
         discount_percentage |-> obj_in.discount_percentage,
         vat_rate |-> obj_in.vat_rate,
         discount_amount |-> 0, net_amount |-> 0, vat_amount |-> 0,
         gross_amount |-> 0])

\* CRUDInvoiceItem.create_with_invoice: the new row, description and VAT
\* rate defaulted, amounts calculated.
create_with_invoice(obj_in, invoice_id, product) ==
    calculate_amounts(
        [invoice_id |-> invoice_id, product_id |-> obj_in.product_id,
         description |-> IF Falsy(obj_in.description) THEN product.name
                         ELSE obj_in.description,
         unit_id |-> obj_in.unit_id, quantity |-> obj_in.quantity,
         unit_price |-> obj_in.unit_price,
         discount_percentage |-> obj_in.discount_percentage,
         vat_rate |-> IF obj_in.vat_rate = 0 /\ HasAttr(product, "vat_rate")
                      THEN product.vat_rate ELSE obj_in.vat_rate,
         discount_amount |-> 0, net_amount |-> 0, vat_amount |-> 0,
         gross_amount |-> 0])

\* The rows flushed for the sequence news of InvoiceItemCreate, keyed by the
\* primary keys base, base + 1, ...
NewRows(news, invoice_id, base) ==
    [id \in {base + k - 1 : k \in 1..Len(news)} |->
        create_with_invoice(news[id - base + 1], invoice_id,
                            ProductRow[news[id - base + 1].product_id])]

\* The table after session s commits: its pending rows as the columns
\* store them, its deleted rows gone.
CommittedItems(s) ==
    LET tx == TxItems(s)
    IN  [id \in DOMAIN tx |->
            IF id \in DOMAIN sess[s].p_items THEN StoredItem(tx[id]) ELSE tx[id]]

\* A row another open transaction has updated or deleted is locked.
Unlocked(s, id) ==
    \A t \in Sessions \ {s} :
        id \notin DOMAIN sess[t].p_items /\ id \notin sess[t].p_del

\* The request is over: its session is closed, its response sent.
Done(s, code) ==
    [IdleSession EXCEPT !.result = code, !.op = sess[s].op,
                        !.invoice = sess[s].invoice]

\* The handler ends without touching the store (HTTPException).
Reject(s, op, inv, code) ==
    /\ sess' = [sess EXCEPT ![s] =
          [IdleSession EXCEPT !.result = code, !.op = op, !.invoice = inv]]
    /\ UNCHANGED <<invoices, items, nextId>>

\* An exception leaves the handler: the session is closed and what it had
\* flushed but not committed is rolled back.
Raise(s) == sess' = [sess EXCEPT ![s] = Done(s, "500")]

CanStart(s) == sess[s].pc = "idle" /\ nreq < MaxReq

\* An invoice or item id a request can name: a row, or no row.
AnyId == 1..nextId

\* ------------------------------------------------------------------------
\* create_invoice and CRUDInvoice.create_with_items
\* ------------------------------------------------------------------------
\* CRUDInvoice.get_by_invoice_number
get_by_invoice_number(number) ==
    {i \in DOMAIN invoices : invoices[i].invoice_number = number}

\* A dict key: a uuid.UUID, or the text str() makes of one.  The two never
\* compare equal and never hash alike.
Uuid(id) == <<"uuid", id>>
Str(id)  == <<"str", id>>

\* product_crud.get_multi_by_ids
get_multi_by_ids(ids) == Products \cap ids

\* The items create_with_items keeps: those whose product_id, a UUID, is a
\* key of products ("if not product: continue").
KeptItems(its, products) ==
    SelectSeq(its, LAMBDA it : DictHas(products, Uuid(it.product_id)))

\* Invoice.validate_due_date, run when due_date is set on the object self.
Invoice_validate_due_date(self, due_date) ==
    ~(self.invoice_date # NoDate /\ due_date < self.invoice_date)

\* The row of Invoice(**obj_in_data) with its totals tot: the columns the
\* body does not name take their defaults.
InvoiceRow(hdr, tot) ==
    [invoice_number |-> hdr.invoice_number, notes |-> "",
     invoice_date |-> hdr.invoice_date, due_date |-> hdr.due_date,
     payment_status |-> hdr.payment_status,
     payment_date |-> NoDate, payment_reference |-> NoText]
        @@ StoredTotals(tot)

\* CRUDInvoice.create_with_items(obj_in, products), obj_in being the header
\* hdr and the items its: the invoice row, the kept items, the totals, one
\* commit.  Invoice(**obj_in_data) sets invoice_date before due_date.
create_with_items(s, op, hdr, its, products) ==
    LET id   == nextId
        kept == KeptItems(its, products)
        rows == NewRows(kept, id, id + 1)
        tot  == update_totals(rows, DOMAIN rows)
        row  == InvoiceRow(hdr, tot)
        end  == [IdleSession EXCEPT
                    !.op = op, !.asked = Len(its), !.seen = rows,
                    !.missing = \E k \in 1..Len(its) : its[k].product_id \notin Products]
    IN  IF \/ ~Invoice_validate_due_date(hdr, hdr.due_date)
           \/ \E r \in DOMAIN rows : ~ForeignKeysHold(rows[r], {id})
        THEN /\ sess' = [sess EXCEPT ![s] =
                   [end EXCEPT !.result = "500", !.seen = Empty]]
             /\ UNCHANGED <<invoices, items, nextId>>
        ELSE /\ invoices' = invoices @@ (id :> row)
             /\ items' = items @@ [r \in DOMAIN rows |-> StoredItem(rows[r])]
             /\ nextId' = id + 1 + Len(kept)
             /\ sess' = [sess EXCEPT ![s] =
                   [end EXCEPT !.result = "ok", !.invoice = id]]

\* POST /invoices with a body of bodies: the validation of the body, then
\* the check of the invoice number.
create_invoice_of(s, bodies) ==
    \E body \in bodies :
        /\ CanStart(s)
        /\ nreq' = nreq + 1 /\ UNCHANGED <<calc, auth>>
        /\ IF ~InvoiceBase_validate_due_date(body)
           THEN Reject(s, "create_invoice", 0, "422")
           ELSE IF get_by_invoice_number(body.invoice_number) # {}
           THEN Reject(s, "create_invoice", 0, "400")
           ELSE /\ sess' = [sess EXCEPT ![s] =
                      [IdleSession EXCEPT
                          !.pc = "create", !.op = "create_invoice",
                          !.header = body]]
                /\ UNCHANGED <<invoices, items, nextId>>

\* POST /invoices with plain dates.
create_invoice(s) == create_invoice_of(s, PlainBodies)

\* POST /invoices with any dates and any status.
create_invoice_any(s) == create_invoice_of(s, InvoiceBodies)

\* POST /invoices, the rest: the products the items name are fetched and
\* handed to create_with_items in a dict keyed by str(p.id).
create_invoice_items(s) ==
    /\ sess[s].pc = "create"
    /\ \E its \in UpToTwo(ItemInputs) :
          LET product_ids == {its[k].product_id : k \in 1..Len(its)}
              products_db == get_multi_by_ids(product_ids)
              products    == [key \in {Str(p) : p \in products_db} |-> key[2]]
          IN  create_with_items(s, "create_invoice",
                                sess[s].header, its, products)
    /\ UNCHANGED <<nreq, calc, auth>>

\* create_with_items called as its docstring has it: products keyed by
\* product_id, for an invoice number not in use.
create_with_items_call(s) ==
    \E hdr \in PlainBodies, its \in UpToTwo(ItemInputs) :
        /\ CanStart(s)
        /\ get_by_invoice_number(hdr.invoice_number) = {}
        /\ nreq' = nreq + 1 /\ UNCHANGED <<calc, auth>>
        /\ create_with_items(s, "create_with_items", hdr, its,
                             [key \in {Uuid(p) : p \in Products} |-> key[2]])

\* ------------------------------------------------------------------------
\* CRUDBase.update (app/crud/base.py), as its callers rely on it:
\* mark_as_paid and the PUT handlers return its result and commit nothing
\* themselves, so it sets the given fields, commits the session and
\* refreshes the object.
\* ------------------------------------------------------------------------
base_update(row, upd) == SetFields(row, upd)

\* ------------------------------------------------------------------------
\* The header handlers: update_invoice, mark_invoice_as_paid, delete_invoice
\* ------------------------------------------------------------------------
\* InvoiceUpdate.dict(exclude_unset=True): no validator runs on it.
InvoiceUpdates ==
    {("invoice_date" :> i) : i \in Dates}
    \cup {("due_date" :> d) : d \in Dates}
    \cup {("invoice_date" :> i) @@ ("due_date" :> d) : i, d \in Dates}
    \cup {("payment_status" :> st) : st \in PaymentStatuses}
    \cup {("payment_reference" :> "BANK-1")}
    \cup {("invoice_number" :> n) : n \in Numbers}

\* Validators that let no paid invoice change its payment status.
SetattrAccepted_paid_is_final(invoice, upd, due_first) ==
    ~(DictHas(upd, "payment_status") /\ invoice.payment_status = "paid"
        /\ upd.payment_status # "paid")

\* The setattr calls of CRUDBase.update on an Invoice pass the validators
\* of the model.  due_date is checked against the invoice_date the object
\* holds at that moment: the old one when due_date is set first.
SetattrAccepted(invoice, upd, due_first) ==
    \/ ~DictHas(upd, "due_date")
    \/ LET self == IF due_first THEN invoice
                   ELSE SetFields(invoice, [f \in DOMAIN upd \ {"due_date"} |-> upd[f]])
       IN  Invoice_validate_due_date(self, upd.due_date)

\* PUT /invoices/{invoice_id}: the invoice is looked up, and a new invoice
\* number checked against the stored ones.
update_invoice(s) ==
    \E inv \in AnyId, invoice_in \in InvoiceUpdates :
        /\ CanStart(s)
        /\ nreq' = nreq + 1 /\ UNCHANGED <<calc, auth>>
        /\ IF inv \notin DOMAIN invoices
           THEN Reject(s, "update_invoice", inv, "404")
           ELSE IF /\ DictHas(invoice_in, "invoice_number")
                   /\ invoice_in.invoice_number # invoices[inv].invoice_number
                   /\ get_by_invoice_number(invoice_in.invoice_number) # {}
           THEN Reject(s, "update_invoice", inv, "400")
           ELSE /\ sess' = [sess EXCEPT ![s] =
                      [IdleSession EXCEPT
                          !.pc = "update", !.op = "update_invoice",
                          !.invoice = inv, !.header = invoice_in,
                          !.loaded = invoices[inv]]]
                /\ UNCHANGED <<invoices, items, nextId>>

\* PUT /invoices/{invoice_id}, the rest: invoice_crud.update sets the fields
\* on the loaded object, in an order base.py decides, and commits; the
\* UPDATE carries the attributes that changed.  A ValueError of a validator,
\* or a row that is gone, ends the request with nothing written.
update_invoice_save(s) ==
    /\ sess[s].pc = "update"
    /\ \E due_first \in BOOLEAN :
         LET inv == sess[s].invoice
             upd == sess[s].header
             old == sess[s].loaded
             set == [f \in {g \in DOMAIN upd : upd[g] # old[g]} |-> upd[f]]
         IN  IF inv \notin DOMAIN invoices \/ ~SetattrAccepted(old, upd, due_first)
             THEN /\ Raise(s)
                  /\ UNCHANGED invoices
             ELSE /\ invoices' = [invoices EXCEPT ![inv] = base_update(@, set)]
                  /\ sess' = [sess EXCEPT ![s] =
                        [Done(s, "ok") EXCEPT !.header = upd, !.loaded = old]]
    /\ UNCHANGED <<items, nextId, nreq, calc, auth>>

\* mark_as_paid that sets the payment date only.
mark_as_paid_date_only(invoice, payment_date, payment_reference) ==
    base_update(invoice,
        [payment_date |-> IF payment_date = NoDate THEN Today ELSE payment_date])

\* mark_as_paid that writes the payment reference it is given, None too.
mark_as_paid_sets_reference(invoice, payment_date, payment_reference) ==
    base_update(invoice,
        [payment_status |-> "paid",
         payment_date |-> IF payment_date = NoDate THEN Today ELSE payment_date,
         payment_reference |-> payment_reference])

\* CRUDInvoice.mark_as_paid on a stored invoice: the update it commits.
mark_as_paid(invoice, payment_date, payment_reference) ==
    base_update(invoice,
        [payment_status |-> "paid",
         payment_date |-> IF payment_date = NoDate THEN Today ELSE payment_date]
        @@ (IF Falsy(payment_reference) THEN Empty
            ELSE [payment_reference |-> payment_reference]))

\* POST /invoices/{invoice_id}/mark-paid.  header keeps the payment_date of
\* the request with the response.
mark_invoice_as_paid(s) ==
    \E inv \in AnyId, payment_date \in {NoDate} \cup Dates,
       payment_reference \in {NoText, "BANK-2"} :
        /\ CanStart(s)
        /\ nreq' = nreq + 1 /\ UNCHANGED <<calc, auth>>
        /\ IF inv \notin DOMAIN invoices
           THEN Reject(s, "mark_invoice_as_paid", inv, "404")
           ELSE /\ invoices' = [invoices EXCEPT ![inv] =
                                    mark_as_paid(@, payment_date,
                                                 payment_reference)]
                /\ sess' = [sess EXCEPT ![s] =
                      [IdleSession EXCEPT
                          !.op = "mark_invoice_as_paid", !.invoice = inv,
                          !.result = "ok",
                          !.header = [payment_date |-> payment_date,
                                      payment_reference |-> payment_reference,
                                      payment_status |-> invoices[inv].payment_status],
                          !.loaded = invoices[inv]]]
                /\ UNCHANGED <<items, nextId>>

\* A delete that leaves the items of the invoice where they are.
CascadeItems_none(tbl, inv) == tbl

\* Deleting the invoice inv takes its items with it: the relationship
\* cascades "all, delete-orphan", the foreign key ON DELETE CASCADE.
CascadeItems(tbl, inv) == [id \in DOMAIN tbl \ ItemsOf(tbl, inv) |-> tbl[id]]

\* CRUDBase.remove (app/crud/base.py) on an invoice: the row is deleted and
\* the deletion committed.
base_remove(tbl, id) == [i \in DOMAIN tbl \ {id} |-> tbl[i]]

\* DELETE /invoices/{invoice_id}.  seen keeps the items the invoice had.
delete_invoice(s) ==
    \E inv \in AnyId :
        /\ CanStart(s)
        /\ nreq' = nreq + 1 /\ UNCHANGED <<calc, auth>>
        /\ IF inv \notin DOMAIN invoices
           THEN Reject(s, "delete_invoice", inv, "404")
           ELSE /\ invoices' = base_remove(invoices, inv)
                /\ items' = CascadeItems(items, inv)
                /\ sess' = [sess EXCEPT ![s] =
                      [IdleSession EXCEPT
                          !.op = "delete_invoice", !.invoice = inv,
                          !.result = "ok",
                          !.seen = [id \in ItemsOf(items, inv) |-> items[id]]]]
                /\ UNCHANGED nextId

\* ------------------------------------------------------------------------
\* CRUDInvoice.update_with_items and the item handlers
\* ------------------------------------------------------------------------
\* Entry of update_with_items: super().update(db, db_obj, obj_in), which
\* commits the header change before any item is touched and refreshes the
\* invoice.
StartBatch(s, op, inv, hdr, open, ups, news, dels) ==
    /\ sess' = [sess EXCEPT ![s] =
          [IdleSession EXCEPT
              !.pc = "items", !.op = op, !.invoice = inv, !.open = open,
              !.update_items = ups, !.new_items = news,
              !.delete_item_ids = dels,
              !.loaded = InvoiceTotals(invoices[inv]),
              !.snap = [invoices |-> invoices, items |-> items]]]
    /\ invoices' = [invoices EXCEPT ![inv] = base_update(@, hdr)]
    /\ UNCHANGED <<items, nextId>>

ValidItemInputs == {it \in ItemInputs : it.product_id \in Products}

\* update_with_items called with a batch of at most two item operations:
\* header fields, an item of this invoice to update, new items with their
\* products, an item id to delete.
update_with_items_call(s) ==
    \E inv \in DOMAIN invoices, hdr \in HeaderUpdates :
        /\ CanStart(s)
        /\ nreq' = nreq + 1 /\ UNCHANGED <<calc, auth>>
        /\ StartBatch(s, "update_with_items", inv, hdr, TRUE, << >>, << >>, {})

\* update_with_items called to delete one item: delete_item_ids holds any
\* id, of an item of this invoice, of another invoice, or of no item.
update_with_items_delete(s) ==
    \E inv \in DOMAIN invoices, item_id \in AnyId :
        /\ CanStart(s)
        /\ nreq' = nreq + 1 /\ UNCHANGED <<calc, auth>>
        /\ StartBatch(s, "update_with_items", inv, Empty, FALSE,
                      << >>, << >>, {item_id})

\* POST /invoices/{invoice_id}/items
add_invoice_item(s) ==
    \E inv \in AnyId, item_in \in ItemInputs :
        /\ CanStart(s)
        /\ nreq' = nreq + 1 /\ UNCHANGED <<calc, auth>>
        /\ IF inv \notin DOMAIN invoices \/ item_in.product_id \notin Products
           THEN Reject(s, "add_invoice_item", inv, "404")
           ELSE StartBatch(s, "add_invoice_item", inv, Empty, FALSE,
                           << >>, <<item_in>>, {})

\* An item lookup by id alone.
ItemOfInvoice_any(item_id, inv) == item_id \in DOMAIN items

\* db.query(InvoiceItem).filter(InvoiceItem.id == item_id,
\* InvoiceItem.invoice_id == invoice_id).first() finds a row.
ItemOfInvoice(item_id, inv) == item_id \in ItemsOf(items, inv)

\* PUT /invoices/{invoice_id}/items/{item_id}
update_invoice_item(s) ==
    \E inv \in AnyId, item_id \in AnyId, item_in \in ItemUpdates :
        /\ CanStart(s)
        /\ nreq' = nreq + 1 /\ UNCHANGED <<calc, auth>>
        /\ IF \/ inv \notin DOMAIN invoices
              \/ ~ItemOfInvoice(item_id, inv)
           THEN Reject(s, "update_invoice_item", inv, "404")
           ELSE StartBatch(s, "update_invoice_item", inv, Empty, FALSE,
                           <<[item |-> item_id, upd |-> item_in]>>, << >>, {})

\* DELETE /invoices/{invoice_id}/items/{item_id}
delete_invoice_item(s) ==
    \E inv \in AnyId, item_id \in AnyId :
        /\ CanStart(s)
        /\ nreq' = nreq + 1 /\ UNCHANGED <<calc, auth>>
        /\ IF \/ inv \notin DOMAIN invoices
              \/ ~ItemOfInvoice(item_id, inv)
           THEN Reject(s, "delete_invoice_item", inv, "404")
           ELSE StartBatch(s, "delete_invoice_item", inv, Empty, FALSE,
                           << >>, << >>, {item_id})

\* The (item, update) pairs the batch can bring next.
NextUpdates(s) ==
    IF sess[s].open
    THEN IF sess[s].nops = 0
         THEN [item : ItemsOf(TxItems(s), sess[s].invoice), upd : ItemUpdates]
         ELSE {}
    ELSE IF sess[s].update_items = << >> THEN {}
         ELSE {Head(sess[s].update_items)}

\* CRUDInvoiceItem.update_with_calculations for the next (item, update) of
\* the batch: super().update sets the fields and commits, with whatever the
\* session had flushed, which expires the session's objects; then the
\* amounts are recalculated and flushed, an UPDATE if one of them changed.
update_with_calculations(s) ==
    /\ sess[s].pc = "items"
    /\ \E u \in NextUpdates(s) :
         LET id == u.item
             tx == TxItems(s)
         IN  /\ Unlocked(s, id)
             /\ IF id \notin DOMAIN tx
                   \/ ~ForeignKeysHold(base_update(tx[id], u.upd), DOMAIN invoices)
                THEN /\ Raise(s)
                     /\ UNCHANGED <<invoices, items>>
                ELSE LET row  == StoredItem(base_update(tx[id], u.upd))
                         calc_row == calculate_amounts(row)
                         done == CommittedItems(s)
                     IN  /\ items' = [r \in DOMAIN done \cup {id} |->
                                         IF r = id THEN row ELSE done[r]]
                         /\ invoices' = invoices
                         /\ sess' = [sess EXCEPT ![s] =
                               [@ EXCEPT !.update_items =
                                             IF sess[s].open THEN @ ELSE Tail(@),
                                         !.nops = @ + 1,
                                         !.p_del = {},
                                         !.loaded = Empty,
                                         !.p_items = IF calc_row = row THEN Empty
                                                     ELSE (id :> calc_row)]]
    /\ UNCHANGED <<nextId, nreq, calc, auth>>

\* A delete loop that deletes every item it finds, of whatever invoice.
DeletedIds_any(dels, tbl, inv) == dels \cap DOMAIN tbl

\* The ids of delete_item_ids that update_with_items deletes: those that
\* db.query(InvoiceItem).get finds and whose invoice_id is this invoice.
DeletedIds(dels, tbl, inv) == dels \cap ItemsOf(tbl, inv)

\* A flush after which invoice.items still holds the deleted rows.
RemainingItems_all(tx, gone) == tx

\* What the transaction sees after db.delete(item) and db.flush(): the
\* rows of tx without the deleted ones.
RemainingItems(tx, gone) == [id \in DOMAIN tx \ gone |-> tx[id]]

\* The (new_items, delete_item_ids) the batch can end with.
NextTail(s) ==
    IF sess[s].open
    THEN {<<news, {}>> : news \in {<< >>} \cup {<<a>> : a \in ValidItemInputs}}
         \cup {<<<< >>, {d}>> : d \in AnyId}
         \cup (IF sess[s].nops = 0
               THEN {<<<<a, b>>, {}>> : a, b \in ValidItemInputs}
                    \cup {<<<<a>>, {d}>> : a \in ValidItemInputs, d \in AnyId}
               ELSE {})
    ELSE IF sess[s].update_items = << >>
         THEN {<<sess[s].new_items, sess[s].delete_item_ids>>}
         ELSE {}

\* Rest of update_with_items up to the commit: the new items are created
\* and flushed, the named items deleted, and after db.flush() the totals
\* are summed over invoice.items as this transaction sees them.  Reading
\* updated_invoice.id reloads an expired invoice.
recalculate(s) ==
    /\ sess[s].pc = "items"
    /\ \E nd \in NextTail(s) :
         LET inv  == sess[s].invoice
             news == nd[1]
             dels == nd[2]
             rows == NewRows(news, inv, nextId)
             tx   == TxItems(s) @@ rows
             gone == DeletedIds(dels, tx, inv)
             view == RemainingItems(tx, gone)
         IN  /\ \A id \in gone : Unlocked(s, id)
             /\ IF \E r \in DOMAIN rows : ~ForeignKeysHold(rows[r], DOMAIN invoices)
                THEN /\ Raise(s)
                     /\ UNCHANGED nextId
                ELSE /\ sess' = [sess EXCEPT ![s] =
                           [@ EXCEPT !.pc = "commit",
                                     !.update_items = << >>, !.new_items = << >>,
                                     !.p_items = [id \in (DOMAIN @ \cup DOMAIN rows) \ gone |-> tx[id]],
                                     !.p_del = @ \cup (gone \cap DOMAIN items),
                                     !.loaded =
                                         IF @ = Empty /\ (news # << >> \/ dels \cap DOMAIN tx # {})
                                         THEN InvoiceTotals(invoices[inv]) ELSE @,
                                     !.seen = [id \in ItemsOf(view, inv) |-> view[id]],
                                     !.p_inv = update_totals(view, ItemsOf(view, inv))]]
                     /\ nextId' = nextId + Len(news)
    /\ UNCHANGED <<invoices, items, nreq, calc, auth>>

\* The totals the commit writes: the UPDATE carries the attributes whose
\* assigned value differs from the loaded one, and all those assigned on an
\* expired object.
WrittenTotals(s) ==
    LET new == sess[s].p_inv
        old == sess[s].loaded
    IN  [f \in {g \in DOMAIN new : old = Empty \/ new[g] # old[g]} |-> new[f]]

\* A commit that writes the items and leaves the invoice row as it was.
commit_totals_unwritten(s) ==
    /\ sess[s].pc = "commit"
    /\ items' = CommittedItems(s)
    /\ invoices' = invoices
    /\ sess' = [sess EXCEPT ![s] =
          [Done(s, "ok") EXCEPT !.seen = sess[s].seen,
                                !.delete_item_ids = sess[s].delete_item_ids]]
    /\ UNCHANGED <<nextId, nreq, calc, auth>>

\* db.add(updated_invoice); db.commit(); db.refresh(updated_invoice)
commit(s) ==
    /\ sess[s].pc = "commit"
    /\ items' = CommittedItems(s)
    /\ invoices' = [invoices EXCEPT ![sess[s].invoice] =
                       SetFields(@, StoredTotals(WrittenTotals(s)))]
    /\ sess' = [sess EXCEPT ![s] =
          [Done(s, "ok") EXCEPT !.seen = sess[s].seen,
                                !.delete_item_ids = sess[s].delete_item_ids]]
    /\ UNCHANGED <<nextId, nreq, calc, auth>>

\* ------------------------------------------------------------------------
\* Specifications
\* ------------------------------------------------------------------------
Step(s) ==
    \/ create_invoice(s)
    \/ create_invoice_items(s)
    \/ create_with_items_call(s)
    \/ update_with_items_call(s)
    \/ add_invoice_item(s)
    \/ update_invoice_item(s)
    \/ delete_invoice_item(s)
    \/ update_with_calculations(s)
    \/ recalculate(s)
    \/ commit(s)

\* One request at a time.
Next == Step(1)

Spec == Init /\ [][Next]_vars

\* The header handlers and the creation of invoices, one request at a time.
NextHeader ==
    \/ create_invoice_any(1)
    \/ create_invoice_items(1)
    \/ create_with_items_call(1)
    \/ update_invoice(1)
    \/ update_invoice_save(1)
    \/ mark_invoice_as_paid(1)
    \/ delete_invoice(1)

SpecHeader == Init /\ [][NextHeader]_vars

\* Creates and header updates of two sessions interleave between the check
\* of the invoice number and the commit.
NextHeaderConcurrent ==
    \E s \in Sessions :
        \/ create_invoice(s)
        \/ create_invoice_items(s)
        \/ update_invoice(s)
        \/ update_invoice_save(s)

SpecHeaderConcurrent == Init /\ [][NextHeaderConcurrent]_vars

\* The store after create_with_items has created invoice 1 with one item.
FirstItem == ItemCreate("p1", "u1", 20, 5, 50, 20)

InitConcurrent ==
    LET rows == NewRows(<<FirstItem>>, 1, 2)
        tot  == update_totals(rows, DOMAIN rows)
    IN  /\ invoices =
              (1 :> InvoiceRow(InvoiceCreate("INV-1", 1, 2, "pending"), tot))
        /\ items = [r \in DOMAIN rows |-> StoredItem(rows[r])]
        /\ sess = [s \in Sessions |-> IdleSession]
        /\ nextId = 3
        /\ nreq = 0
        /\ auth = NoAuth
        /\ calc = [pc |-> "none"]

\* The store after create_with_items has created invoice 1 with item 2 and
\* invoice 3 with item 4.
SecondItem == ItemCreate("p1", "u1", 5, 5, 50, 20)

InitTwo ==
    LET rows1 == NewRows(<<FirstItem>>, 1, 2)
        rows3 == NewRows(<<SecondItem>>, 3, 4)
    IN  /\ invoices =
              (1 :> InvoiceRow(InvoiceCreate("INV-1", 1, 2, "pending"),
                               update_totals(rows1, DOMAIN rows1)))
              @@ (3 :> InvoiceRow(InvoiceCreate("INV-2", 1, 2, "pending"),
                                  update_totals(rows3, DOMAIN rows3)))
        /\ items = [r \in DOMAIN rows1 \cup DOMAIN rows3 |->
                       StoredItem((rows1 @@ rows3)[r])]
        /\ sess = [s \in Sessions |-> IdleSession]
        /\ nextId = 5
        /\ nreq = 0
        /\ auth = NoAuth
        /\ calc = [pc |-> "none"]

\* Items added and deleted and invoices deleted on a store of two
\* invoices, one request at a time.
NextTwo ==
    \/ update_with_items_delete(1)
    \/ add_invoice_item(1)
    \/ recalculate(1)
    \/ commit(1)
    \/ delete_invoice(1)

SpecTwo == InitTwo /\ [][NextTwo]_vars

\* The three item handlers on a store of two invoices with items, one
\* request at a time.
NextItems ==
    \/ add_invoice_item(1)
    \/ update_invoice_item(1)
    \/ delete_invoice_item(1)
    \/ update_with_calculations(1)
    \/ recalculate(1)
    \/ commit(1)

SpecItems == InitTwo /\ [][NextItems]_vars

\* Header updates and payments on a store of two invoices with items, one
\* request at a time.
NextPaid ==
    \/ update_invoice(1)
    \/ update_invoice_save(1)
    \/ mark_invoice_as_paid(1)

SpecPaid == InitTwo /\ [][NextPaid]_vars

\* Requests of two sessions interleave at their statements.  The requests
\* are those the router sends to update_with_items: one item added, updated
\* or deleted.
NextConcurrent ==
    \E s \in Sessions :
        \/ add_invoice_item(s)
        \/ update_invoice_item(s)
        \/ delete_invoice_item(s)
        \/ update_with_calculations(s)
        \/ recalculate(s)
        \/ commit(s)

SpecConcurrent == InitConcurrent /\ [][NextConcurrent]_vars

\* ------------------------------------------------------------------------
\* calculate_amounts on its own: one item built from any source fields
\* (InvoiceItem(**obj_in_data)), calculated, calculated again, stored.
\* ------------------------------------------------------------------------
CalcQuantities == {0, 5, 10, 25, 100}
CalcPrices     == {-150, 0, 1, 33, 250}
CalcDiscounts  == {0, 5, 50, 100}
CalcVatRates   == {0, 5, 20, 100}

\* InvoiceItem(**obj_in_data): the four amounts take their column default.
NewItem(q, up, d, v) ==
    [invoice_id |-> 0, product_id |-> "p1",
     description |-> "Water", unit_id |-> "u1",
     quantity |-> q, unit_price |-> up,
     discount_percentage |-> d, vat_rate |-> v,
     discount_amount |-> 0, net_amount |-> 0,
     vat_amount |-> 0, gross_amount |-> 0]

\* The item of the schema's example: 10 units at 12.99, 5% discount, 20% VAT.
ExampleItem == NewItem(100, 1299, 5, 20)

InitCalc ==
    /\ invoices = Empty
    /\ items = Empty
    /\ sess = [s \in Sessions |-> IdleSession]
    /\ nextId = 1
    /\ nreq = 0
    /\ auth = NoAuth
    /\ \/ \E q \in CalcQuantities, up \in CalcPrices,
             d \in CalcDiscounts, v \in CalcVatRates :
             calc = [pc |-> "new", item |-> NewItem(q, up, d, v)]
       \/ calc = [pc |-> "new", item |-> ExampleItem]

store == <<invoices, items, sess, nextId, nreq, auth>>

CalcFirst ==
    /\ calc.pc = "new"
    /\ calc' = [pc |-> "calculated", item |-> calculate_amounts(calc.item)]
    /\ UNCHANGED store

CalcAgain ==
    /\ calc.pc = "calculated"
    /\ calc' = [pc |-> "recalculated", item |-> calculate_amounts(calc.item)]
    /\ UNCHANGED store

CalcStore ==
    /\ calc.pc \in {"calculated", "recalculated"}
    /\ calc' = [pc |-> "stored", item |-> StoredItem(calc.item)]
    /\ UNCHANGED store

NextCalc == CalcFirst \/ CalcAgain \/ CalcStore

SpecCalc == InitCalc /\ [][NextCalc]_vars

\* ------------------------------------------------------------------------
\* One new item: the JSON body, the InvoiceItemCreate parsed from it, the
\* row create_with_invoice makes of it
\* ------------------------------------------------------------------------
\* The VAT rate a product is created with (ProductBase.vat_rate).  Product
\* has no column for it.
ProductVatRate == [p \in Products |-> 5]

Descriptions == {"", "Water", "Mineral Water (500ml)"}
BodyVatRates == {0, 5, 20}

\* The bodies of POST /invoices/{invoice_id}/items: description and
\* vat_rate are given or left out.
ItemBodies ==
    {[product_id |-> "p1", unit_id |-> "u1", quantity |-> q, unit_price |-> 5]
        @@ d @@ v :
        q \in Quantities,
        d \in {Empty} \cup {("description" :> x) : x \in Descriptions},
        v \in {Empty} \cup {("vat_rate" :> x) : x \in BodyVatRates}}

\* InvoiceItemCreate(**body): the fields left out take their defaults.
ParseItemCreate(body) ==
    [product_id |-> body.product_id,
     description |-> IF DictHas(body, "description") THEN body.description
                     ELSE NoText,
     unit_id |-> body.unit_id, quantity |-> body.quantity,
     unit_price |-> body.unit_price,
     discount_percentage |-> 0,
     vat_rate |-> IF DictHas(body, "vat_rate") THEN body.vat_rate ELSE 20]

InitInsert ==
    /\ invoices = Empty
    /\ items = Empty
    /\ sess = [s \in Sessions |-> IdleSession]
    /\ nextId = 1
    /\ nreq = 0
    /\ auth = NoAuth
    /\ \E body \in ItemBodies : calc = [pc |-> "request", body |-> body]

\* The request body is validated into item_in.
ParseItem ==
    /\ calc.pc = "request"
    /\ calc' = [pc |-> "parsed", body |-> calc.body,
                obj_in |-> ParseItemCreate(calc.body)]
    /\ UNCHANGED store

\* item_crud.create_with_invoice(obj_in, invoice_id, product), the product
\* being the row obj_in.product_id names.
InsertItem ==
    /\ calc.pc = "parsed"
    /\ calc' = [pc |-> "inserted", body |-> calc.body,
                item |-> create_with_invoice(calc.obj_in, 1,
                                             ProductRow[calc.obj_in.product_id])]
    /\ UNCHANGED store

NextInsert == ParseItem \/ InsertItem

SpecInsert == InitInsert /\ [][NextInsert]_vars

\* ------------------------------------------------------------------------
\* The response of add_invoice_item: invoice.items[-1]
\* ------------------------------------------------------------------------
\* The items an invoice can hold before the call, and the id the new item
\* is given.
OldItemIds == {2, 3, 4}
NewItemId == 5

\* The lists that hold each element of S once.
Orderings(S) ==
    {seq \in [1..Cardinality(S) -> S] :
        \A i, j \in 1..Cardinality(S) : i # j => seq[i] # seq[j]}

\* A load of invoice.items that lists the rows by the time of their insert.
LoadOfItems_by_insertion(ids) ==
    {seq \in Orderings(ids) :
        \A i, j \in 1..Cardinality(ids) : i < j => seq[i] < seq[j]}

\* The loads of invoice.items: the relationship gives no order_by, so the
\* SELECT has no ORDER BY and the rows come in an order the database
\* chooses.
LoadOfItems(ids) == Orderings(ids)

InitOrder ==
    /\ invoices = Empty
    /\ items = Empty
    /\ sess = [s \in Sessions |-> IdleSession]
    /\ nextId = 1
    /\ nreq = 0
    /\ auth = NoAuth
    /\ \E old \in SUBSET OldItemIds :
          calc = [pc |-> "committed", old |-> old, new |-> NewItemId]

\* invoice.items is read after commit and refresh: it is loaded anew.
LoadItems ==
    /\ calc.pc = "committed"
    /\ \E seq \in LoadOfItems(calc.old \cup {calc.new}) :
          calc' = [pc |-> "loaded", old |-> calc.old, new |-> calc.new,
                   items |-> seq]
    /\ UNCHANGED store

\* new_item = invoice.items[-1]
ReturnLast ==
    /\ calc.pc = "loaded"
    /\ calc' = [pc |-> "returned", old |-> calc.old, new |-> calc.new,
                items |-> calc.items,
                new_item |-> calc.items[Len(calc.items)]]
    /\ UNCHANGED store

NextOrder == LoadItems \/ ReturnLast

SpecOrder == InitOrder /\ [][NextOrder]_vars

\* ------------------------------------------------------------------------
\* Authentication: login, refresh and logout
\* ------------------------------------------------------------------------
business == <<invoices, items, sess, nextId, nreq, calc>>

AuthCanStart(s) == auth.req[s].pc = "idle" /\ auth.n < MaxAuthReq

AuthDone(s, op, result) ==
    [auth EXCEPT !.req[s] = [IdleAuth EXCEPT !.op = op, !.result = result],
                 !.n = IF auth.req[s].pc = "idle" THEN @ + 1 ELSE @]

\* create_refresh_token: a token that was not created before.
create_refresh_token == auth.ntok + 1

\* login and login_json: the user is read, the password and is_active are
\* checked, a refresh token is created, stored in the row and committed.
\* The write does not depend on what was read of the token: one step.
login_user(s, op, password_ok) ==
    /\ AuthCanStart(s)
    /\ IF ~password_ok
       THEN auth' = AuthDone(s, op, "401")
       ELSE IF ~auth.user.is_active
       THEN auth' = AuthDone(s, op, "400")
       ELSE LET t == create_refresh_token
            IN  auth' = [AuthDone(s, op, "ok") EXCEPT
                            !.user.refresh_token = t,
                            !.ntok = t,
                            !.req[s].new = t,
                            !.issued = @ \cup {t},
                            !.last = t,
                            !.logins = @ + 1,
                            !.logged_out = FALSE]
    /\ UNCHANGED business

login(s) == \E password_ok \in BOOLEAN : login_user(s, "login", password_ok)

login_json(s) ==
    \E password_ok \in BOOLEAN : login_user(s, "login_json", password_ok)

\* refresh_token: user.refresh_token != token_data.refresh_token
TokenMismatch(stored, presented) == stored # presented

\* refresh_token up to its commit: the token is decoded, the user read, the
\* token compared with the stored one and the new token created.
refresh_token(s) ==
    /\ AuthCanStart(s)
    /\ \E token \in auth.issued \cup {NotAJwt} :
          IF token = NotAJwt
          THEN auth' = [AuthDone(s, "refresh_token", "403") EXCEPT
                           !.req[s].token = token]
          ELSE IF TokenMismatch(auth.user.refresh_token, token)
          THEN auth' = [AuthDone(s, "refresh_token", "403") EXCEPT
                           !.req[s].token = token]
          ELSE LET t == create_refresh_token
               IN  auth' = [auth EXCEPT
                               !.req[s] = [IdleAuth EXCEPT
                                              !.pc = "commit",
                                              !.op = "refresh_token",
                                              !.token = token,
                                              !.new = t],
                               !.ntok = t,
                               !.n = @ + 1]
    /\ UNCHANGED business

\* refresh_token: user.refresh_token = refresh_token; db.commit(); the
\* response carries the new token.
refresh_token_commit(s) ==
    /\ auth.req[s].pc = "commit"
    /\ auth.req[s].op = "refresh_token"
    /\ auth' = [AuthDone(s, "refresh_token", "ok") EXCEPT
                    !.user.refresh_token = auth.req[s].new,
                    !.req[s].token = auth.req[s].token,
                    !.req[s].new = auth.req[s].new,
                    !.issued = @ \cup {auth.req[s].new},
                    !.last = auth.req[s].new,
                    !.redeemed = Append(@, auth.req[s].token)]
    /\ UNCHANGED business

\* logout up to its commit: get_current_user loads the user of the access
\* token, which a user that has logged in holds.
logout(s) ==
    /\ AuthCanStart(s)
    /\ auth.logins > 0
    /\ auth' = [auth EXCEPT
                    !.req[s] = [IdleAuth EXCEPT
                                   !.pc = "commit",
                                   !.op = "logout",
                                   !.loaded = auth.user.refresh_token,
                                   !.seen = auth.logins],
                    !.n = @ + 1]
    /\ UNCHANGED business

\* logout: current_user.refresh_token = None; db.commit().  An attribute
\* that was loaded as None is not changed by the assignment, and no UPDATE
\* is sent.
logout_commit(s) ==
    /\ auth.req[s].pc = "commit"
    /\ auth.req[s].op = "logout"
    /\ auth' = [AuthDone(s, "logout", "ok") EXCEPT
                    !.user.refresh_token =
                        IF auth.req[s].loaded = NoToken THEN @ ELSE NoToken,
                    !.logged_out = (auth.logins = auth.req[s].seen)]
    /\ UNCHANGED business

InitAuth ==
    /\ invoices = Empty
    /\ items = Empty
    /\ sess = [s \in Sessions |-> IdleSession]
    /\ nextId = 1
    /\ nreq = 0
    /\ calc = [pc |-> "none"]
    /\ auth = NoAuth

NextAuth ==
    \E s \in Sessions :
        \/ login(s)
        \/ login_json(s)
        \/ refresh_token(s)
        \/ refresh_token_commit(s)
        \/ logout(s)
        \/ logout_commit(s)

SpecAuth == InitAuth /\ [][NextAuth]_vars

\* ------------------------------------------------------------------------
\* Properties
\* ------------------------------------------------------------------------
TotalFields == DOMAIN Zero5

\* The five totals invoice inv holds.
Totals(inv) == [f \in TotalFields |-> invoices[inv][f]]

\* The sums of the item fields over the rows of inv in tbl.
ItemSums(tbl, inv) ==
    LET ids == ItemsOf(tbl, inv)
    IN  [subtotal       |-> SumSubtotal(tbl, ids),
         total_discount |-> SumField(tbl, ids, "discount_amount"),
         total_net      |-> SumField(tbl, ids, "net_amount"),
         total_vat      |-> SumField(tbl, ids, "vat_amount"),
         total_gross    |-> SumField(tbl, ids, "gross_amount")]

\* The last request of session s has committed.
LastOk(s) == sess[s].pc = "idle" /\ sess[s].result = "ok"

BatchOps == {"update_with_items", "add_invoice_item", "update_invoice_item",
             "delete_invoice_item"}

\* The amounts of row are whole cents: storing them rounds nothing.
ExactItem(row) ==
    /\ ItemSubtotal(row) = Round2(ItemSubtotal(row))
    /\ calculate_amounts(row) = StoredItem(calculate_amounts(row))

ExactInvoice(inv) == \A id \in ItemsOf(items, inv) : ExactItem(items[id])

ValidSource(row) ==
    /\ row.quantity >= 0
    /\ row.discount_percentage \in 0..100
    /\ row.vat_rate \in 0..100

\* C1: one request at a time, amounts exact: after a committed
\* create_with_items or update_with_items, each of the invoice's five stored
\* totals is the sum of that field over the items the invoice now has.
C1_TotalsEqualSums ==
    \A s \in Sessions :
        (LastOk(s) /\ ExactInvoice(sess[s].invoice))
            => Totals(sess[s].invoice) = ItemSums(items, sess[s].invoice)

\* An update_with_items batch has committed on an invoice that now has two
\* or more items, all exact, and a gross total other than zero.
C1_Witness ==
    /\ LastOk(1)
    /\ sess[1].op = "update_with_items"
    /\ Cardinality(ItemsOf(items, sess[1].invoice)) >= 2
    /\ ExactInvoice(sess[1].invoice)
    /\ invoices[sess[1].invoice].total_gross # 0

\* C2: with no request in progress, every persisted item holds the derived
\* amounts that calculate_amounts yields from its persisted source fields.
C2_DerivedMatchSource ==
    (\A s \in Sessions : sess[s].pc = "idle")
        => \A id \in DOMAIN items :
              items[id] = StoredItem(calculate_amounts(items[id]))

\* C3: create_invoice with N items that all name existing products leaves
\* an invoice with N items and totals that are the sums over them.
C3_CreateInvoiceKeepsItems ==
    \A s \in Sessions :
        (LastOk(s) /\ sess[s].op = "create_invoice" /\ ~sess[s].missing)
            => /\ Cardinality(ItemsOf(items, sess[s].invoice)) = sess[s].asked
               /\ ExactInvoice(sess[s].invoice)
                    => Totals(sess[s].invoice) = ItemSums(items, sess[s].invoice)

\* C4: a step that ends an update_with_items batch in failure leaves the
\* stored invoices and items as they were when the batch was entered.
C4_BatchAtomic ==
    [][\A s \in Sessions :
          (sess[s].pc # "idle" /\ sess[s].op \in BatchOps
              /\ sess'[s].pc = "idle" /\ sess'[s].result = "500")
            => (invoices' = sess[s].snap.invoices /\ items' = sess[s].snap.items)]_vars

\* Both sessions have committed a batch on the same invoice.
BothCommitted ==
    /\ \A s \in Sessions : LastOk(s) /\ sess[s].op \in BatchOps
    /\ sess[1].invoice = sess[2].invoice

\* C5 as stated: after two interleaved update_with_items requests on one
\* invoice have both committed, its totals are the sums over the items that
\* exist then.
C5_InterleavedTotalsEqualSums ==
    (BothCommitted /\ ExactInvoice(sess[1].invoice))
        => Totals(sess[1].invoice) = ItemSums(items, sess[1].invoice)

\* C5 amended: after both have committed, each total is the sum that one
\* of the two requests, the last to write it, computed over the items its
\* own transaction saw when it recomputed.
C5_LastWriteWins ==
    BothCommitted
        => \A f \in TotalFields :
              \E s \in Sessions :
                  Totals(sess[1].invoice)[f]
                      = Round2(ItemSums(sess[s].seen, sess[s].invoice)[f])

\* Both have committed, each has summed an item the other did not see, and
\* the totals are not the sums over the items that now exist.
C5_Witness ==
    /\ BothCommitted
    /\ \E id \in DOMAIN sess[1].seen : id \notin DOMAIN sess[2].seen
    /\ \E id \in DOMAIN sess[2].seen : id \notin DOMAIN sess[1].seen
    /\ Totals(sess[1].invoice) # ItemSums(items, sess[1].invoice)

\* C6: for quantity >= 0, any unit_price, discount_percentage and vat_rate
\* in [0,100], calculate_amounts sets discount_amount = quantity * unit_price
\* * discount_percentage / 100, net_amount = quantity * unit_price -
\* discount_amount, vat_amount = net_amount * vat_rate / 100 and
\* gross_amount = net_amount + vat_amount.
C6_CalculateAmounts ==
    (calc.pc = "calculated" /\ ValidSource(calc.item))
        => LET it == calc.item
               qp == it.quantity * it.unit_price      \* tenths of a cent
               per == Micro \div 1000                 \* a tenth of a cent / 100
           IN  /\ it.discount_amount = qp * it.discount_percentage * per
               /\ it.net_amount = qp * 100 * per - it.discount_amount
               /\ it.vat_amount = qp * (100 - it.discount_percentage) * it.vat_rate
               /\ it.gross_amount = it.net_amount + it.vat_amount

\* An item of 2.5 units at 0.33 with 5% discount and 20% VAT was calculated.
C6_Witness ==
    /\ calc.pc = "calculated"
    /\ calc.item.quantity = 25 /\ calc.item.unit_price = 33
    /\ calc.item.discount_percentage = 5 /\ calc.item.vat_rate = 20
    /\ calc.item.vat_amount # 0

\* C7: every persisted item with valid inputs has stored net_amount +
\* vat_amount = gross_amount.
C7_StoredNetPlusVatIsGross ==
    \A id \in DOMAIN items :
        ValidSource(items[id])
            => items[id].net_amount + items[id].vat_amount = items[id].gross_amount

\* C8: after a recompute and commit, each stored total of the invoice is
\* the sum of the stored values of that field over its items.
C8_StoredTotalsEqualStoredSums ==
    \A s \in Sessions :
        LastOk(s)
            => \A f \in TotalFields \ {"subtotal"} :
                  Totals(sess[s].invoice)[f] = ItemSums(items, sess[s].invoice)[f]

\* C9: create_invoice with an item that names no existing product ends in
\* an error, and writes no invoice.
C9_MissingProductRejected ==
    \A s \in Sessions :
        (sess[s].pc = "idle" /\ sess[s].op = "create_invoice" /\ sess[s].missing)
            => (sess[s].result # "ok" /\ sess[s].invoice = 0)

\* C10: no persisted item has a negative quantity.
C10_NoNegativeQuantity ==
    \A id \in DOMAIN items : items[id].quantity >= 0

\* DatesOrdered: the stored due date of an invoice is not before its
\* invoice date.
DatesOrdered(row) == row.due_date >= row.invoice_date

\* C11: every stored invoice has due_date >= invoice_date after any sequence
\* of creates and header updates, including an update that changes only
\* invoice_date and one that changes both dates.
C11_DueNotBeforeInvoiceDate ==
    \A i \in DOMAIN invoices : DatesOrdered(invoices[i])

\* C12: a POST /invoices whose due_date is before its invoice_date is
\* answered 422 by the validation of the body: the handler never runs with
\* such a body, and the step that rejects it writes no row.
C12_BadDatesRejectedUnwritten ==
    [][\A s \in Sessions :
          /\ sess'[s].pc = "create" => DatesOrdered(sess'[s].header)
          /\ (sess'[s].result = "422" /\ sess'[s] # sess[s])
                => UNCHANGED <<invoices, items, nextId>>]_vars

\* A create with due_date before invoice_date has been answered 422, and a
\* create with ordered dates has stored its invoice.
C12_Witness ==
    /\ sess[1].op = "create_invoice" /\ sess[1].result = "422"
    /\ invoices # Empty

\* C13: after any sequence of operations, concurrent create_invoice and
\* update_invoice included, no two stored invoices share an invoice_number.
C13_InvoiceNumbersUnique ==
    \A i, j \in DOMAIN invoices :
        i # j => invoices[i].invoice_number # invoices[j].invoice_number

\* The totals of invoice inv in the table invs.
TotalsIn(invs, inv) == [f \in TotalFields |-> invs[inv][f]]

\* The four amounts of the item row, under the names of the totals.
AmountsOf(row) ==
    [total_discount |-> row.discount_amount, total_net |-> row.net_amount,
     total_vat |-> row.vat_amount, total_gross |-> row.gross_amount]

\* Session s commits a batch that has deleted stored items of its invoice.
CommitsDelete(s) ==
    /\ sess[s].pc = "commit" /\ sess'[s].pc = "idle"
    /\ sess[s].p_del # {}

C15_NoCommitBeforeRecompute ==
    \A s \in Sessions :
        sess[s].pc = "items" => items = sess[s].snap.items

\* C16: a new item whose body gives no vat_rate stores the VAT rate of its
\* product; a vat_rate the body gives, 0 included, is stored.
C16_VatRateDefaultsToProduct ==
    calc.pc = "inserted" =>
        calc.item.vat_rate =
            IF DictHas(calc.body, "vat_rate") THEN calc.body.vat_rate
            ELSE ProductVatRate[calc.item.product_id]

\* C17 as stated: a new item whose body gives no description stores the
\* name of its product; a description the body gives is stored unchanged.
C17_DescriptionKept ==
    calc.pc = "inserted" =>
        calc.item.description =
            IF DictHas(calc.body, "description") THEN calc.body.description
            ELSE ProductRow[calc.item.product_id].name

\* C17, amended: a description the body gives and that is not empty is
\* stored unchanged; with no description, or an empty one, the item stores
\* the name of its product.
C17_NonEmptyDescriptionKept ==
    calc.pc = "inserted" =>
        calc.item.description =
            IF DictHas(calc.body, "description") /\ calc.body.description # ""
            THEN calc.body.description
            ELSE ProductRow[calc.item.product_id].name

\* An item has been inserted from a body without description and stores
\* the product's name.
C17_Witness ==
    /\ calc.pc = "inserted"
    /\ ~DictHas(calc.body, "description")
    /\ calc.item.description = "Water"

\* C18: mark_as_paid on a stored invoice, whatever its payment status,
\* leaves it with payment_status paid and with the payment_date of the
\* request, or the current date when the request gives none.
C18_MarkedPaid ==
    \A s \in Sessions :
        (LastOk(s) /\ sess[s].op = "mark_invoice_as_paid") =>
            LET row == invoices[sess[s].invoice]
                given == sess[s].header.payment_date
            IN  /\ row.payment_status = "paid"
                /\ row.payment_date = IF given = NoDate THEN Today ELSE given

\* A cancelled invoice has been marked as paid by a request without a
\* payment date.
C18_Witness ==
    /\ LastOk(1) /\ sess[1].op = "mark_invoice_as_paid"
    /\ sess[1].header.payment_status = "cancelled"
    /\ sess[1].header.payment_date = NoDate
    /\ invoices[sess[1].invoice].payment_date = Today

\* C19: a batch of update_with_items on one invoice changes no other
\* invoice and no item of another invoice: an entry of delete_item_ids that
\* names an item of another invoice, or no item, deletes nothing, and the
\* batch that carries it commits without an error.
C19_ForeignDeleteIgnored ==
    [][\A s \in Sessions :
          LET inv == sess[s].invoice
          IN  (sess[s].op \in BatchOps /\ sess[s].pc \in {"items", "commit"}) =>
                 /\ \A j \in DOMAIN invoices \ {inv} :
                       j \in DOMAIN invoices' /\ invoices'[j] = invoices[j]
                 /\ \A d \in DOMAIN items :
                       items[d].invoice_id # inv =>
                          /\ d \in DOMAIN items' /\ items'[d] = items[d]
                          /\ d \notin sess'[s].p_del
                 /\ sess'[s].p_del \subseteq ItemsOf(items, inv)
                 /\ sess[s].pc = "commit" => sess'[s].result = "ok"]_vars

\* update_with_items has committed a batch whose delete_item_ids names an
\* item of another invoice: the item is stored as before.
C19_Witness ==
    /\ LastOk(1) /\ sess[1].op = "update_with_items"
    /\ \E d \in sess[1].delete_item_ids :
          /\ d \in DOMAIN items
          /\ items[d].invoice_id # sess[1].invoice
          /\ items[d].invoice_id \in DOMAIN invoices

\* C20: every stored item belongs to a stored invoice; in particular no
\* item of a deleted invoice remains.
C20_ItemsHaveInvoice ==
    \A id \in DOMAIN items : items[id].invoice_id \in DOMAIN invoices

\* delete_invoice has deleted an invoice that had an item, and an item of
\* another invoice is still stored.
C20_Witness ==
    /\ LastOk(1) /\ sess[1].op = "delete_invoice"
    /\ sess[1].seen # Empty
    /\ sess[1].invoice \notin DOMAIN invoices
    /\ items # Empty

\* The source fields of the item row are those of the schema's example.
IsExample(row) ==
    /\ row.quantity = ExampleItem.quantity
    /\ row.unit_price = ExampleItem.unit_price
    /\ row.discount_percentage = ExampleItem.discount_percentage
    /\ row.vat_rate = ExampleItem.vat_rate

\* C21: 10 units at 12.99 with 5% discount and 20% VAT are stored with
\* subtotal 129.90, discount_amount 6.50, net_amount 123.40, vat_amount
\* 24.68 and gross_amount 148.08.
C21_ExampleAmounts ==
    (calc.pc = "stored" /\ IsExample(calc.item)) =>
        /\ ItemSubtotal(calc.item) = 12990 * Micro
        /\ calc.item.discount_amount = 650 * Micro
        /\ calc.item.net_amount = 12340 * Micro
        /\ calc.item.vat_amount = 2468 * Micro
        /\ calc.item.gross_amount = 14808 * Micro

\* C22: an invoice that has no items, created with none or left with none
\* after its last item was deleted through update_with_items, has all
\* five totals equal to 0.
C22_EmptyInvoiceTotalsZero ==
    \A inv \in DOMAIN invoices :
        ItemsOf(items, inv) = {} => Totals(inv) = Zero5

\* delete_invoice_item has deleted the last item of an invoice created
\* with items by another request, and the totals are zero.
C22_Witness ==
    /\ LastOk(1) /\ sess[1].op = "delete_invoice_item"
    /\ sess[1].invoice \in DOMAIN invoices
    /\ ItemsOf(items, sess[1].invoice) = {}
    /\ Totals(sess[1].invoice) = Zero5

\* C23: calculate_amounts called a second time on an item whose source
\* fields are unchanged leaves discount_amount, net_amount, vat_amount and
\* gross_amount exactly as the first call set them.
C23_CalculateAmountsIdempotent ==
    [][(calc.pc = "calculated" /\ calc'.pc = "recalculated")
          => calc'.item = calc.item]_vars

\* The amounts of the example item have been calculated twice and are
\* not whole cents.
C23_Witness ==
    /\ calc.pc = "recalculated"
    /\ IsExample(calc.item)
    /\ calc.item.net_amount # Round2(calc.item.net_amount)

\* C24: every line item has discount_amount = subtotal - net_amount,
\* subtotal being quantity * unit_price and the two amounts the stored
\* values.
C24_DiscountIsSubtotalMinusNet ==
    (calc.pc = "stored" /\ ValidSource(calc.item)) =>
        calc.item.discount_amount = ItemSubtotal(calc.item) - calc.item.net_amount

\* A PUT /invoices/{inv} whose body sets payment_status alone to st is
\* taken up by the handler.
StatusUpdateAccepted(s, inv, st) ==
    ENABLED (/\ update_invoice(s)
             /\ sess'[s].pc = "update"
             /\ sess'[s].invoice = inv
             /\ sess'[s].header = ("payment_status" :> st))

\* Session s commits an update of payment_status alone.
SavesStatus(s) ==
    /\ sess[s].pc = "update"
    /\ DOMAIN sess[s].header = {"payment_status"}

\* C25: from each payment status update_invoice can set any other: the
\* handler takes up such a body for every stored invoice, and the update
\* is not rejected and stores the status asked.
C25_AnyStatusToAnyOther ==
    /\ [](\A inv \in DOMAIN invoices, st \in PaymentStatuses :
            (CanStart(1) /\ st # invoices[inv].payment_status)
                => StatusUpdateAccepted(1, inv, st))
    /\ [][\A s \in Sessions :
            SavesStatus(s) =>
               /\ sess'[s].result = "ok"
               /\ invoices'[sess[s].invoice].payment_status =
                     sess[s].header.payment_status]_vars

\* update_invoice has set a paid invoice back to pending.
C25_Witness ==
    /\ LastOk(1) /\ sess[1].op = "update_invoice"
    /\ sess[1].loaded.payment_status = "paid"
    /\ sess[1].header = ("payment_status" :> "pending")
    /\ invoices[sess[1].invoice].payment_status = "pending"

\* update_invoice_item goes on to update item_id as an item of inv.
UpdateItemProceeds(s, inv, item_id) ==
    ENABLED (/\ update_invoice_item(s)
             /\ sess'[s].pc = "items" /\ sess'[s].invoice = inv
             /\ sess'[s].update_items # << >>
             /\ sess'[s].update_items[1].item = item_id)

\* delete_invoice_item goes on to delete item_id as an item of inv.
DeleteItemProceeds(s, inv, item_id) ==
    ENABLED (/\ delete_invoice_item(s)
             /\ sess'[s].pc = "items" /\ sess'[s].invoice = inv
             /\ item_id \in sess'[s].delete_item_ids)

\* C26: update_invoice_item and delete_invoice_item given an item_id that
\* names no item, or an item of another invoice, do not go on with it, and
\* the 404 they answer changes no invoice and no item.
C26_ForeignItemNotFound ==
    /\ [](\A inv \in DOMAIN invoices, item_id \in AnyId :
            (CanStart(1) /\ item_id \notin ItemsOf(items, inv)) =>
                /\ ~UpdateItemProceeds(1, inv, item_id)
                /\ ~DeleteItemProceeds(1, inv, item_id))
    /\ [][\A s \in Sessions :
            (/\ sess'[s] # sess[s]
             /\ sess'[s].result = "404"
             /\ sess'[s].op \in {"update_invoice_item", "delete_invoice_item"})
                => UNCHANGED <<invoices, items>>]_vars

\* delete_invoice_item has answered 404 on a stored invoice that has an
\* item, while another invoice has items too: the item id named no item
\* of the invoice.
C26_Witness ==
    /\ sess[1].pc = "idle" /\ sess[1].result = "404"
    /\ sess[1].op = "delete_invoice_item"
    /\ sess[1].invoice \in DOMAIN invoices
    /\ ItemsOf(items, sess[1].invoice) # {}
    /\ \E id \in DOMAIN items : items[id].invoice_id # sess[1].invoice

\* Session s ends a request of update_invoice or mark_invoice_as_paid.
HeaderRequestEnds(s) ==
    /\ sess'[s] # sess[s]
    /\ sess'[s].pc = "idle"
    /\ sess'[s].op \in {"update_invoice", "mark_invoice_as_paid"}

\* C27: update_invoice and mark_as_paid leave every item and the five
\* totals of every invoice as they were; mark_as_paid given no
\* payment_reference leaves the stored payment_reference as it was.
C27_HeaderUpdatesKeepItemsAndTotals ==
    [][\A s \in Sessions :
          HeaderRequestEnds(s) =>
             /\ items' = items
             /\ DOMAIN invoices' = DOMAIN invoices
             /\ \A inv \in DOMAIN invoices :
                   TotalsIn(invoices', inv) = TotalsIn(invoices, inv)
             /\ (/\ sess'[s].op = "mark_invoice_as_paid"
                 /\ sess'[s].result = "ok"
                 /\ sess'[s].header.payment_reference = NoText)
                   => invoices'[sess'[s].invoice].payment_reference =
                         invoices[sess'[s].invoice].payment_reference]_vars

\* mark_as_paid without a payment_reference has paid an invoice that has
\* an item, totals other than zero and a payment reference set before.
C27_Witness ==
    /\ LastOk(1) /\ sess[1].op = "mark_invoice_as_paid"
    /\ sess[1].header.payment_reference = NoText
    /\ invoices[sess[1].invoice].payment_reference = "BANK-1"
    /\ invoices[sess[1].invoice].payment_status = "paid"
    /\ ItemsOf(items, sess[1].invoice) # {}
    /\ invoices[sess[1].invoice].total_gross # 0

\* C28: add_invoice_item returns the item it has just created: the last
\* element of invoice.items after the call is the new item, whatever the
\* number of items the invoice had.
C28_ReturnsNewItem ==
    calc.pc = "returned" => calc.new_item = calc.new

\* C29: after a logout has answered and until the user logs in again, no
\* refresh token is accepted by the refresh endpoint: every token issued to
\* the user before is rejected.
C29_NothingAcceptedAfterLogout ==
    auth.logged_out => auth.user.refresh_token = NoToken

\* The accepted refresh token, if there is one, is the one handed out by
\* the latest login or refresh that answered.
AcceptedIsLast == auth.user.refresh_token \in {NoToken, auth.last}

\* No token was presented to two refreshes that succeeded.
RedeemedOnce ==
    \A i, j \in 1..Len(auth.redeemed) :
        i # j => auth.redeemed[i] # auth.redeemed[j]

\* C30: at most one refresh token of the user is accepted, the one of the
\* latest login or refresh that succeeded, and a token that a refresh has
\* accepted is accepted by no other refresh, concurrent ones included.
C30_OneTokenRedeemedOnce == AcceptedIsLast /\ RedeemedOnce

====
